---- MODULE Spec2Model ----
(***************************************************************************)
(* The intake pipeline of src/src/utils/pdfHandler.ts (the final version   *)
(* of the handler, lines 239-787): handleFiles, showPageSelector,          *)
(* showPageSelectorForEdit, the click / drag handlers of setupFileList and *)
(* updateFileList, as a state machine.                                     *)
(*                                                                         *)
(* One step of the model is one run of JavaScript from the moment a task   *)
(* or microtask starts to the moment it returns or reaches its next await. *)
(***************************************************************************)
EXTENDS Integers, Sequences, FiniteSets, TLC

\* ------------------------------------------------------------------ bounds
\* handleFiles calls in one run
MaxSubmits == 2
\* files handed to handleFiles in one run, all calls together
MaxFiles == 3
\* edit-pages requests outstanding at once
MaxEditRequests == 1

\* ------------------------------------------------------------ input files
\* The File objects a drop or a picker can hand to handleFiles, by name.
\* type: File.type; readOk: file.arrayBuffer() fulfils; parseOk:
\* PDFDocument.load fulfils; pages: getPageCount(); width, height: the size
\* of page 0.
Catalogue ==
  [ apdf |-> [name |-> "a.pdf", type |-> "application/pdf", readOk |-> TRUE,
              parseOk |-> TRUE, pages |-> 1, width |-> 595, height |-> 842],
    bpdf |-> [name |-> "b.pdf", type |-> "application/pdf", readOk |-> TRUE,
              parseOk |-> TRUE, pages |-> 2, width |-> 595, height |-> 842],
    ctxt |-> [name |-> "c.txt", type |-> "text/plain", readOk |-> TRUE,
              parseOk |-> FALSE, pages |-> 0, width |-> 0, height |-> 0],
    dpdf |-> [name |-> "d.pdf", type |-> "application/pdf", readOk |-> FALSE,
              parseOk |-> FALSE, pages |-> 0, width |-> 0, height |-> 0],
    epdf |-> [name |-> "e.pdf", type |-> "application/pdf", readOk |-> TRUE,
              parseOk |-> FALSE, pages |-> 0, width |-> 0, height |-> 0],
    zpdf |-> [name |-> "z.pdf", type |-> "application/pdf", readOk |-> TRUE,
              parseOk |-> TRUE, pages |-> 0, width |-> 0, height |-> 0],
    gpdf |-> [name |-> "g.pdf", type |-> "application/pdf", readOk |-> TRUE,
              parseOk |-> TRUE, pages |-> 1, width |-> 0, height |-> 842],
    mpdf |-> [name |-> "m.pdf", type |-> "application/pdf", readOk |-> TRUE,
              parseOk |-> TRUE, pages |-> 3, width |-> 595, height |-> 842] ]

FileKeys == DOMAIN Catalogue

\* The files of the runs that mix handleFiles with the list's click and drag
\* handlers: a single-page and a multi-page document, a wrong-type file and a
\* corrupted document.
ListKeys == {"apdf", "bpdf", "ctxt", "epdf"}

\* FileList values: every sequence of at most n files out of `keys`, each
\* file at most once.
FileLists(keys, n) ==
  { fl \in UNION { [1..k -> keys] : k \in 0..n } :
      \A i, j \in DOMAIN fl : i # j => fl[i] # fl[j] }

\* The page lists the selection surface hands to a commit callback: nothing in
\* the handler constrains them, so besides selections of pages of the document
\* there are the empty list, a list with a repeated index and a list with an
\* index past the last page.
PageLists(totalPages) ==
  { <<>>, <<0>>, <<totalPages - 1>>, <<0, totalPages - 1>>,
    <<totalPages - 1, totalPages - 1>>, <<totalPages>> }

Batches == 1..MaxSubmits
NoId == 0

VARIABLES
  files,         \* let files: FileItem[]
  dom,           \* the data-id of the .file-item children of #file-list, in order
  dragging,      \* the data-id of the child with class "dragging", or NoId
  nextId,        \* the next value crypto.randomUUID() returns
  submits,       \* handleFiles calls made so far
  handed,        \* the files handed to handleFiles so far, all calls together
  calls,         \* per handleFiles call: its frame (see IdleCall)
  requests,      \* showPageSelector events whose callbacks were not called yet
  lastSnapshot,  \* detail.files of the last fileListUpdated event
  out,           \* the events the last step dispatched, in order
  act            \* the handler the last step ran, with its arguments

vars == <<files, dom, dragging, nextId, submits, handed, calls, requests,
          lastSnapshot, out, act>>

\* ---------------------------------------------------------------- helpers
Range(s) == { s[i] : i \in DOMAIN s }

RECURSIVE SelectSeqBy(_, _, _)
\* s.filter(keep) for a predicate given as the set of indices to keep
SelectSeqBy(s, keep, i) ==
  IF i > Len(s) THEN <<>>
  ELSE (IF i \in keep THEN <<s[i]>> ELSE <<>>) \o SelectSeqBy(s, keep, i + 1)

Ids(fs) == [i \in DOMAIN fs |-> fs[i].id]

\* files.find((f) => f.id === id): the index of the first match, 0 if none
FindIndex(fs, id) ==
  IF \E i \in DOMAIN fs : fs[i].id = id
  THEN CHOOSE i \in DOMAIN fs : fs[i].id = id /\ \A j \in 1..(i - 1) : fs[j].id # id
  ELSE 0

\* ----------------------------------------------------------------- events
\* actions: detail.actions of the event, which only showModalWithRetry sets
Event(type, kind, text, name, cause, n, m, names) ==
  [type |-> type, kind |-> kind, text |-> text, name |-> name, cause |-> cause,
   n |-> n, m |-> m, names |-> names, actions |-> <<>>]

\* showNotification(message)
Notification(text, name, n) == Event("notification", "success", text, name, "", n, 0, <<>>)
\* showErrorNotification(message)
ErrorNotification(text, name, cause) == Event("notification", "error", text, name, cause, 0, 0, <<>>)
\* window.dispatchEvent(new CustomEvent("fileListUpdated", ...))
SnapshotEvent == Event("fileListUpdated", "", "", "", "", 0, 0, <<>>)
\* window.dispatchEvent(new CustomEvent("showPageSelector", ...))
SelectionRequestEvent(name, initial) ==
  Event("showPageSelector", "", "", name, "", 0, 0, initial)
\* the actions of the dialog of showModalWithRetry: "Try Different Files"
\* clicks the file input, which opens the picker; "Close" does nothing
RetryActions ==
  << [label |-> "Try Different Files", onClick |-> "fileInput.click", primary |-> TRUE],
     [label |-> "Close", onClick |-> "", primary |-> FALSE] >>

\* showModal(title, message, "error"): the dialog without failedFiles and
\* without actions
PlainModal(text, s, f, names) == Event("showModal", "error", text, "", "", s, f, <<>>)

\* showModalWithRetry(title, message, failedFiles)
RetryModal(text, s, f, names) ==
  [Event("showModal", "error", text, "", "", s, f, names) EXCEPT !.actions = RetryActions]

IsSnapshot(e) == e.type = "fileListUpdated"
HasSnapshot(evs) == \E i \in DOMAIN evs : IsSnapshot(evs[i])
CountSnapshots(evs) == Cardinality({ i \in DOMAIN evs : IsSnapshot(evs[i]) })

\* ------------------------------------------------------------ FileItem
\* the item pushed with the status an intake attempt starts in
FileItemPending(id, key, selectedPages, totalPages) ==
  [id |-> id, file |-> key, buffer |-> <<"bytes of", Catalogue[key].name>>,
   status |-> "pending", errorMessage |-> "", selectedPages |-> selectedPages,
   totalPages |-> totalPages]

\* the item with an id taken once for the whole session, not per file
FileItemFixedId(id, key, selectedPages, totalPages) ==
  [id |-> 1, file |-> key, buffer |-> <<"bytes of", Catalogue[key].name>>,
   status |-> "success", errorMessage |-> "", selectedPages |-> selectedPages,
   totalPages |-> totalPages]

\* The object literal handleFiles and onConfirm push: {id, file, buffer,
\* status: "success", selectedPages, totalPages}. file is the catalogue key;
\* buffer is the content read from that file; errorMessage, which the literal
\* leaves out, is "".
FileItem(id, key, selectedPages, totalPages) ==
  [id |-> id, file |-> key, buffer |-> <<"bytes of", Catalogue[key].name>>,
   status |-> "success", errorMessage |-> "", selectedPages |-> selectedPages,
   totalPages |-> totalPages]

\* what a call remembers of an item it pushed
Pushed(item) == [id |-> item.id, status |-> item.status, totalPages |-> item.totalPages]

\* files.unshift(item) in place of files.push(item)
PushFront(fs, item) == <<item>> \o fs

\* files.push(item)
Push(fs, item) == Append(fs, item)

\* files.splice(files.findIndex((f) => f.id === id), 1): an index of -1, for an
\* id that is not there, takes the last item out
RemoveBySplice(fs, id) ==
  IF FindIndex(fs, id) # 0
  THEN SubSeq(fs, 1, FindIndex(fs, id) - 1) \o SubSeq(fs, FindIndex(fs, id) + 1, Len(fs))
  ELSE SubSeq(fs, 1, Len(fs) - 1)

\* files.filter((f) => f.id !== id)
RemoveById(fs, id) == SelectSeqBy(fs, { i \in DOMAIN fs : fs[i].id # id }, 1)

RECURSIVE ReorderFrom(_, _, _)
\* the forEach of dragend: for each element of the list in DOM order,
\* files.find by its data-id and push when found
ReorderFrom(fs, order, i) ==
  IF i > Len(order) THEN <<>>
  ELSE (IF FindIndex(fs, order[i]) # 0 THEN <<fs[FindIndex(fs, order[i])]>> ELSE <<>>)
       \o ReorderFrom(fs, order, i + 1)

\* the reorder reading the entries of the list as positions in files, not as
\* identities
ReorderByIndex(fs, order) ==
  LET at == SelectSeqBy(order, { i \in DOMAIN order : order[i] \in DOMAIN fs }, 1)
  IN [i \in DOMAIN at |-> fs[at[i]]]

Reorder(fs, order) == ReorderFrom(fs, order, 1)

\* the assignment made to every item, not to the one the request captured
SetSelectedPagesOfAll(fs, id, pages) ==
  [i \in DOMAIN fs |-> [fs[i] EXCEPT !.selectedPages = pages]]

\* fileItem.selectedPages = selectedPages, on the object the request captured
\* (an object that left files is changed too, which files does not show)
SetSelectedPages(fs, id, pages) ==
  [i \in DOMAIN fs |-> IF fs[i].id = id THEN [fs[i] EXCEPT !.selectedPages = pages]
                       ELSE fs[i]]

\* ------------------------------------------------------------- snapshots
SuccessOnly(fs) == SelectSeqBy(fs, { i \in DOMAIN fs : fs[i].status = "success" }, 1)

\* files.filter(success) without the map: the entries of the snapshot are the
\* item objects themselves, named here by their ids
SnapshotOfItems(fs) ==
  [i \in DOMAIN SuccessOnly(fs) |-> [ref |-> SuccessOnly(fs)[i].id]]

\* files.filter(success).map(f => ({name, buffer, selectedPages: f.selectedPages || [0]}))
\* (every stored item has selectedPages defined, and [] is truthy)
Snapshot(fs) ==
  LET ok == SuccessOnly(fs)
  IN [i \in DOMAIN ok |-> [name |-> Catalogue[ok[i].file].name, buffer |-> ok[i].buffer,
                           hasSelectedPages |-> TRUE,
                           selectedPages |-> ok[i].selectedPages]]

\* dragend: files.filter(success).map(f => ({name, buffer}))
ReorderSnapshot(fs) ==
  LET ok == SuccessOnly(fs)
  IN [i \in DOMAIN ok |-> [name |-> Catalogue[ok[i].file].name, buffer |-> ok[i].buffer,
                           hasSelectedPages |-> FALSE, selectedPages |-> <<>>]]

\* ----------------------------------------------------- batch summary
\* the summary without the singular wording for one file
SummaryAlwaysPlural(sc, ff) ==
  IF Len(ff) > 0
  THEN <<RetryModal(IF sc > 0 THEN "file(s) added successfully. file(s) failed to load."
                    ELSE "All file(s) failed to load.", sc, Len(ff), ff)>>
  ELSE IF sc > 0
       THEN <<Notification("files added successfully", "", sc)>>
       ELSE <<>>

\* handleFiles, after the loop: the retry modal, the summary notification,
\* or nothing
Summary(sc, ff) ==
  IF Len(ff) > 0
  THEN <<RetryModal(IF sc > 0 THEN "file(s) added successfully. file(s) failed to load."
                    ELSE "All file(s) failed to load.", sc, Len(ff), ff)>>
  ELSE IF sc > 0
       THEN <<Notification(IF sc = 1 THEN "File added successfully"
                           ELSE "files added successfully", "", sc)>>
       ELSE <<>>

\* handleFiles after the summary: updateFileList() and the fileListUpdated event
BatchEndEvents(sc, ff) == Summary(sc, ff) \o <<SnapshotEvent>>

\* onConfirm without its fileListUpdated event
ConfirmEventsQuiet(name, n) == <<Notification("Added page(s) from", name, n)>>

\* onConfirm of a first-time request: the notification and the
\* fileListUpdated event
ConfirmEvents(name, n) == <<Notification("Added page(s) from", name, n), SnapshotEvent>>

\* onConfirm of an edit request without its fileListUpdated event
EditConfirmQuiet(name, n) == <<Notification("Updated to page(s) from", name, n)>>

\* onConfirm of an edit request: the notification and the fileListUpdated event
EditConfirmEvents(name, n) ==
  <<Notification("Updated to page(s) from", name, n), SnapshotEvent>>

\* onCancel raising showErrorNotification in place of showNotification
SkippedAsError(name) == ErrorNotification("Skipped", name, "")

\* onCancel of a first-time request: showNotification(`Skipped ${file.name}`)
SkippedNotice(name) == Notification("Skipped", name, 0)

\* ------------------------------------------------------------- state
NoRequest == {}

\* a showPageSelector event whose callbacks are still to be called: the
\* closure of showPageSelector (first-time) or showPageSelectorForEdit (edit)
FirstRequest(b, id, key, totalPages) ==
  [kind |-> "first", b |-> b, id |-> id, file |-> key, totalPages |-> totalPages,
   hasInitial |-> FALSE, initial |-> <<>>]

\* the edit request without initialSelectedPages in its detail
EditRequestNoInitial(item) ==
  [kind |-> "edit", b |-> 0, id |-> item.id, file |-> item.file,
   totalPages |-> item.totalPages, hasInitial |-> FALSE, initial |-> <<>>]

EditRequest(item) ==
  [kind |-> "edit", b |-> 0, id |-> item.id, file |-> item.file,
   totalPages |-> item.totalPages, hasInitial |-> TRUE, initial |-> item.selectedPages]

Handler(op, b, id, pages) == [op |-> op, b |-> b, id |-> id, pages |-> pages]

\* The frame of one handleFiles call.
\*   pc: "idle" (not called yet), "read" (at await file.arrayBuffer()),
\*       "parse" (at await PDFDocument.load), "select" (at await
\*       showPageSelector, callbacks not called), "resolved" (the promise is
\*       resolved, the continuation is queued), "done" (returned in the last
\*       step), "returned" (returned earlier: the frame is gone)
\*   fileList, idx, id, successCount, failedFiles: the argument and the locals
\*   added: the value showPageSelector's promise resolved with
\*   appended: the items the call pushed (see Pushed), in push order
\*   preIds: ids in files when the call started
\*   reordered: a dragend ran since the call started
\*   cancelled: onCancel calls of the call's selection requests
\*   snaps: fileListUpdated events the call's flow dispatched
IdleCall ==
  [pc |-> "idle", fileList |-> <<>>, idx |-> 0, id |-> NoId, successCount |-> 0,
   failedFiles |-> <<>>, added |-> FALSE, appended |-> <<>>, preIds |-> {},
   reordered |-> FALSE, cancelled |-> 0, snaps |-> 0]

\* A call that returned keeps its frame for the one state that follows its
\* return; every later step finds the frame gone.
Retire(cs) ==
  [b \in Batches |-> IF cs[b].pc = "done" THEN [IdleCall EXCEPT !.pc = "returned"]
                     ELSE cs[b]]

\* A promise continuation (microtask) is queued: it runs before any other task.
MicrotaskPending == \E b \in Batches : calls[b].pc = "resolved"

Init ==
  /\ files = <<>>
  /\ dom = <<>>
  /\ dragging = NoId
  /\ nextId = 1
  /\ submits = 0
  /\ handed = {}
  /\ calls = [b \in Batches |-> IdleCall]
  /\ requests = NoRequest
  /\ lastSnapshot = <<>>
  /\ out = <<>>
  /\ act = Handler("init", 0, NoId, <<>>)

\* ------------------------------------------------------- handleFiles
\* the loop without its type check: every file goes on to the byte read
NextPdfUnchecked(fl, k) == k

\* the type check ending the loop (break) where the code goes on (continue)
NextPdfBreak(fl, k) ==
  IF k > Len(fl) THEN k
  ELSE IF Catalogue[fl[k]].type = "application/pdf" THEN k
  ELSE Len(fl) + 1

RECURSIVE NextPdf(_, _)
\* the loop's type check: the index of the first file from k on whose type is
\* application/pdf, Len(fl) + 1 if there is none
NextPdf(fl, k) ==
  IF k > Len(fl) THEN k
  ELSE IF Catalogue[fl[k]].type = "application/pdf" THEN k
  ELSE NextPdf(fl, k + 1)

\* the type check raising showNotification in place of showErrorNotification
NotPdfAsNotice(key) == Notification("is not a PDF file", Catalogue[key].name, 0)

\* `${file.name} is not a PDF file`
NotPdfNotice(key) == ErrorNotification("is not a PDF file", Catalogue[key].name, "")

\* the type check without its failedFiles.push(file.name)
WrongTypeNamesDropped(fl, k, j) == <<>>

\* failedFiles.push(file.name) for the wrong-type files fl[k] .. fl[j - 1]
WrongTypeNames(fl, k, j) == [i \in 1..(j - k) |-> Catalogue[fl[k + i - 1]].name]

\* The loop of handleFiles from file k on, run until its next await or its
\* return: wrong-type files are recorded and skipped; at the first pdf file an
\* id is drawn and the call suspends at file.arrayBuffer(); past the last
\* file come the summary, updateFileList() and the fileListUpdated event.
\* c: the frame so far; fs: files so far; evs: the events dispatched so far.
Continue(b, c, k, fs, evs) ==
  LET fl == c.fileList
      j == NextPdf(fl, k)
      ff == c.failedFiles \o WrongTypeNames(fl, k, j)
      evs2 == evs \o [i \in 1..(j - k) |-> NotPdfNotice(fl[k + i - 1])]
      end == evs2 \o BatchEndEvents(c.successCount, ff)
  IN /\ files' = fs
     /\ IF j <= Len(fl)
        THEN /\ calls' = [Retire(calls) EXCEPT ![b] =
                            [c EXCEPT !.pc = "read", !.idx = j, !.failedFiles = ff,
                                      !.id = nextId]]
             /\ nextId' = nextId + 1
             /\ out' = evs2
             /\ UNCHANGED <<dom, dragging, lastSnapshot>>
        ELSE /\ calls' = [Retire(calls) EXCEPT ![b] =
                            [c EXCEPT !.pc = "done", !.idx = j, !.failedFiles = ff,
                                      !.snaps = @ + CountSnapshots(end)]]
             /\ out' = end
             /\ dom' = Ids(fs)
             /\ dragging' = NoId
             /\ lastSnapshot' = Snapshot(fs)
             /\ UNCHANGED nextId

\* the drop / change handler calls handleFiles(fileList)
Submit(fl) ==
  LET b == submits + 1
  IN /\ submits < MaxSubmits
     /\ Cardinality(handed) + Len(fl) <= MaxFiles
     /\ ~MicrotaskPending
     /\ submits' = b
     /\ handed' = handed \cup { fl[i] : i \in DOMAIN fl }
     /\ act' = Handler("submit", b, NoId, <<>>)
     /\ Continue(b, [IdleCall EXCEPT !.fileList = fl, !.preIds = Range(Ids(files))],
                 1, files, <<>>)
     /\ UNCHANGED requests

\* files after the outer catch block handled a read error: nothing is pushed
AfterReadError(fs, id, key) == fs

\* file.arrayBuffer() settles
ReadDone(b) ==
  LET c == calls[b]
      key == c.fileList[c.idx]
  IN /\ c.pc = "read"
     /\ ~MicrotaskPending
     /\ act' = Handler("read", b, c.id, <<>>)
     /\ IF Catalogue[key].readOk
        THEN /\ calls' = [Retire(calls) EXCEPT ![b] = [c EXCEPT !.pc = "parse"]]
             /\ out' = <<>>
             /\ UNCHANGED <<files, dom, dragging, nextId, lastSnapshot>>
        ELSE Continue(b, [c EXCEPT !.failedFiles = Append(@, Catalogue[key].name)],
                      c.idx + 1, AfterReadError(files, c.id, key),
                      <<ErrorNotification("Failed to read", Catalogue[key].name,
                                          "Failed to read file")>>)
     /\ UNCHANGED <<submits, handed, requests>>

\* the validation with a geometry check that fails only when both width and
\* height are not positive
ValidationErrorBothDims(key) ==
  IF ~Catalogue[key].parseOk THEN "Invalid or corrupted PDF file"
  ELSE IF Catalogue[key].pages = 0 THEN "PDF has no pages"
  ELSE IF Catalogue[key].width <= 0 /\ Catalogue[key].height <= 0
       THEN "Invalid page dimensions"
  ELSE ""

\* The validation of the inner try block: "" when the document passes, else
\* the message of the error thrown
ValidationError(key) ==
  IF ~Catalogue[key].parseOk THEN "Invalid or corrupted PDF file"
  ELSE IF Catalogue[key].pages = 0 THEN "PDF has no pages"
  ELSE IF Catalogue[key].width <= 0 \/ Catalogue[key].height <= 0
       THEN "Invalid page dimensions"
  ELSE ""

\* the inner catch block pushing what it computed: an item with status
\* "error", the error message and no pages
AfterValidationErrorStored(fs, id, key, msg) ==
  Append(fs, [FileItem(id, key, <<>>, 0) EXCEPT !.status = "error", !.errorMessage = msg])

\* files after the inner catch block handled a validation error: the block
\* sets the locals status and errorMessage and pushes nothing
AfterValidationError(fs, id, key, msg) == fs

\* PDFDocument.load(buffer) settles, in a loop that calls showPageSelector
\* without awaiting it: the request is issued and the loop goes on
ParseDoneNoAwait(b) ==
  LET c == calls[b]
      key == c.fileList[c.idx]
      msg == ValidationError(key)
      name == Catalogue[key].name
  IN /\ c.pc = "parse"
     /\ ~MicrotaskPending
     /\ act' = Handler("parse", b, c.id, <<>>)
     /\ IF msg # ""
        THEN /\ Continue(b, [c EXCEPT !.failedFiles = Append(@, name)], c.idx + 1,
                         AfterValidationError(files, c.id, key, msg),
                         <<ErrorNotification("Failed to load", name, msg)>>)
             /\ UNCHANGED requests
        ELSE IF Catalogue[key].pages > 1
        THEN /\ requests' = requests \cup
                              {FirstRequest(b, c.id, key, Catalogue[key].pages)}
             /\ Continue(b, c, c.idx + 1, files, <<SelectionRequestEvent(name, <<>>)>>)
        ELSE /\ Continue(b, [c EXCEPT !.successCount = @ + 1,
                                      !.appended =
                                         Append(@, Pushed(FileItem(c.id, key, <<0>>, 1)))],
                         c.idx + 1, Push(files, FileItem(c.id, key, <<0>>, 1)), <<>>)
             /\ UNCHANGED requests
     /\ UNCHANGED <<submits, handed>>

\* PDFDocument.load(buffer) settles, in a call that works on the copy of
\* files it took when it started and assigns the copy back at each push: what
\* another call pushed meanwhile is dropped
ParseDoneStale(b) ==
  LET c == calls[b]
      key == c.fileList[c.idx]
      msg == ValidationError(key)
      name == Catalogue[key].name
      own == SelectSeqBy(files, { i \in DOMAIN files :
                                    \/ files[i].id \in c.preIds
                                    \/ \E k \in DOMAIN c.appended :
                                         c.appended[k].id = files[i].id }, 1)
  IN /\ c.pc = "parse"
     /\ ~MicrotaskPending
     /\ act' = Handler("parse", b, c.id, <<>>)
     /\ IF msg # ""
        THEN /\ Continue(b, [c EXCEPT !.failedFiles = Append(@, name)], c.idx + 1,
                         AfterValidationError(files, c.id, key, msg),
                         <<ErrorNotification("Failed to load", name, msg)>>)
             /\ UNCHANGED requests
        ELSE IF Catalogue[key].pages > 1
        THEN /\ calls' = [Retire(calls) EXCEPT ![b] = [c EXCEPT !.pc = "select"]]
             /\ requests' = requests \cup
                              {FirstRequest(b, c.id, key, Catalogue[key].pages)}
             /\ out' = <<SelectionRequestEvent(name, <<>>)>>
             /\ UNCHANGED <<files, dom, dragging, nextId, lastSnapshot>>
        ELSE /\ Continue(b, [c EXCEPT !.successCount = @ + 1,
                                      !.appended =
                                         Append(@, Pushed(FileItem(c.id, key, <<0>>, 1)))],
                         c.idx + 1, Push(own, FileItem(c.id, key, <<0>>, 1)), <<>>)
             /\ UNCHANGED requests
     /\ UNCHANGED <<submits, handed>>

\* PDFDocument.load(buffer) settles
ParseDone(b) ==
  LET c == calls[b]
      key == c.fileList[c.idx]
      msg == ValidationError(key)
      name == Catalogue[key].name
  IN /\ c.pc = "parse"
     /\ ~MicrotaskPending
     /\ act' = Handler("parse", b, c.id, <<>>)
     /\ IF msg # ""
        THEN /\ Continue(b, [c EXCEPT !.failedFiles = Append(@, name)], c.idx + 1,
                         AfterValidationError(files, c.id, key, msg),
                         <<ErrorNotification("Failed to load", name, msg)>>)
             /\ UNCHANGED requests
        ELSE IF Catalogue[key].pages > 1
        THEN /\ calls' = [Retire(calls) EXCEPT ![b] = [c EXCEPT !.pc = "select"]]
             /\ requests' = requests \cup
                              {FirstRequest(b, c.id, key, Catalogue[key].pages)}
             /\ out' = <<SelectionRequestEvent(name, <<>>)>>
             /\ UNCHANGED <<files, dom, dragging, nextId, lastSnapshot>>
        ELSE /\ Continue(b, [c EXCEPT !.successCount = @ + 1,
                                      !.appended =
                                         Append(@, Pushed(FileItem(c.id, key, <<0>>, 1)))],
                         c.idx + 1, Push(files, FileItem(c.id, key, <<0>>, 1)), <<>>)
             /\ UNCHANGED requests
     /\ UNCHANGED <<submits, handed>>

\* ---------------------------------------------------- showPageSelector
\* the request a call suspended at showPageSelector is waiting for
RequestOf(b) ==
  FirstRequest(b, calls[b].id, calls[b].fileList[calls[b].idx],
               Catalogue[calls[b].fileList[calls[b].idx]].pages)

\* the selection surface calls onConfirm(selectedPages) of a first-time request
Confirm(b, pages) ==
  LET c == calls[b]
      req == RequestOf(b)
      item == FileItem(req.id, req.file, pages, req.totalPages)
      fs == Push(files, item)
      evs == ConfirmEvents(Catalogue[req.file].name, Len(pages))
  IN /\ c.pc = "select"
     /\ req \in requests
     /\ ~MicrotaskPending
     /\ act' = Handler("confirm", b, req.id, pages)
     /\ files' = fs
     /\ out' = evs
     /\ dom' = Ids(fs)
     /\ dragging' = NoId
     /\ lastSnapshot' = Snapshot(fs)
     /\ requests' = requests \ {req}
     /\ calls' = [Retire(calls) EXCEPT ![b] =
                    [c EXCEPT !.pc = "resolved", !.added = TRUE,
                              !.snaps = @ + CountSnapshots(evs),
                              !.appended = Append(@, Pushed(item))]]
     /\ UNCHANGED <<nextId, submits, handed>>

\* onCancel without its resolve(false): the notice is shown and the promise
\* of showPageSelector stays pending
CancelUnresolved(b) ==
  /\ calls[b].pc = "select"
  /\ RequestOf(b) \in requests
  /\ ~MicrotaskPending
  /\ act' = Handler("cancel", b, RequestOf(b).id, <<>>)
  /\ out' = <<SkippedNotice(Catalogue[RequestOf(b).file].name)>>
  /\ requests' = requests \ {RequestOf(b)}
  /\ calls' = [Retire(calls) EXCEPT ![b] = [calls[b] EXCEPT !.cancelled = @ + 1]]
  /\ UNCHANGED <<files, dom, dragging, nextId, submits, handed, lastSnapshot>>

\* the selection surface calls onCancel() of a first-time request
Cancel(b) ==
  LET c == calls[b]
      req == RequestOf(b)
  IN /\ c.pc = "select"
     /\ req \in requests
     /\ ~MicrotaskPending
     /\ act' = Handler("cancel", b, req.id, <<>>)
     /\ out' = <<SkippedNotice(Catalogue[req.file].name)>>
     /\ requests' = requests \ {req}
     /\ calls' = [Retire(calls) EXCEPT ![b] =
                    [c EXCEPT !.pc = "resolved", !.added = FALSE, !.cancelled = @ + 1]]
     /\ UNCHANGED <<files, dom, dragging, nextId, submits, handed, lastSnapshot>>

\* the resumption counting the file as added whatever the promise resolved
\* with: successCount++ without `if (added)`
ResumeAlwaysCounts(b) ==
  /\ calls[b].pc = "resolved"
  /\ act' = Handler("resume", b, calls[b].id, <<>>)
  /\ Continue(b, [calls[b] EXCEPT !.successCount = @ + 1], calls[b].idx + 1, files, <<>>)
  /\ UNCHANGED <<submits, handed, requests>>

\* handleFiles resumes after `await showPageSelector(...)`
Resume(b) ==
  LET c == calls[b]
  IN /\ c.pc = "resolved"
     /\ act' = Handler("resume", b, c.id, <<>>)
     /\ Continue(b, [c EXCEPT !.successCount = IF c.added THEN @ + 1 ELSE @],
                 c.idx + 1, files, <<>>)
     /\ UNCHANGED <<submits, handed, requests>>

\* ------------------------------------------------------ setupFileList
\* click on the remove button of the row with data-id = id
Remove(id) ==
  LET fs == RemoveById(files, id)
  IN /\ id \in Range(dom)
     /\ ~MicrotaskPending
     /\ act' = Handler("remove", 0, id, <<>>)
     /\ files' = fs
     /\ dom' = Ids(fs)
     /\ dragging' = NoId
     /\ lastSnapshot' = Snapshot(fs)
     /\ out' = <<SnapshotEvent>>
     /\ calls' = Retire(calls)
     /\ UNCHANGED <<nextId, submits, handed, requests>>

EditRequests == { r \in requests : r.kind = "edit" }

\* the requests the edit-pages branch of the click handler issues for data-id
\* = id: files.find by id, and showPageSelectorForEdit on the item found
EditClickRequests(fs, id) ==
  IF FindIndex(fs, id) # 0 THEN {EditRequest(fs[FindIndex(fs, id)])} ELSE {}

\* click on the "Edit Pages" button of the row with data-id = id (the button
\* is rendered for rows with totalPages > 1): showPageSelectorForEdit(fileItem)
EditClick(id) ==
  LET i == FindIndex(files, id)
  IN /\ id \in Range(dom)
     /\ ~MicrotaskPending
     /\ i # 0
     /\ files[i].totalPages > 1
     /\ Cardinality(EditRequests) < MaxEditRequests
     /\ act' = Handler("editClick", 0, id, <<>>)
     /\ requests' = requests \cup {EditRequest(files[i])}
     /\ out' = <<SelectionRequestEvent(Catalogue[files[i].file].name,
                                       files[i].selectedPages)>>
     /\ calls' = Retire(calls)
     /\ UNCHANGED <<files, dom, dragging, nextId, submits, handed, lastSnapshot>>

\* onConfirm of an edit request putting the captured item back when files no
\* longer holds it
EditConfirmReinserts(req, pages) ==
  LET fs == IF FindIndex(files, req.id) # 0 THEN SetSelectedPages(files, req.id, pages)
            ELSE Push(files, FileItem(req.id, req.file, pages, req.totalPages))
  IN /\ req \in EditRequests
     /\ ~MicrotaskPending
     /\ act' = Handler("editConfirm", 0, req.id, pages)
     /\ files' = fs
     /\ dom' = Ids(fs)
     /\ dragging' = NoId
     /\ lastSnapshot' = Snapshot(fs)
     /\ out' = EditConfirmEvents(Catalogue[req.file].name, Len(pages))
     /\ requests' = requests \ {req}
     /\ calls' = Retire(calls)
     /\ UNCHANGED <<nextId, submits, handed>>

\* the selection surface calls onConfirm(selectedPages) of an edit request
EditConfirm(req, pages) ==
  LET fs == SetSelectedPages(files, req.id, pages)
  IN /\ req \in EditRequests
     /\ ~MicrotaskPending
     /\ act' = Handler("editConfirm", 0, req.id, pages)
     /\ files' = fs
     /\ dom' = Ids(fs)
     /\ dragging' = NoId
     /\ lastSnapshot' = Snapshot(fs)
     /\ out' = EditConfirmEvents(Catalogue[req.file].name, Len(pages))
     /\ requests' = requests \ {req}
     /\ calls' = Retire(calls)
     /\ UNCHANGED <<nextId, submits, handed>>

\* the selection surface calls onCancel() of an edit request
EditCancel(req) ==
  /\ req \in EditRequests
  /\ ~MicrotaskPending
  /\ act' = Handler("editCancel", 0, req.id, <<>>)
  /\ requests' = requests \ {req}
  /\ out' = <<>>
  /\ calls' = Retire(calls)
  /\ UNCHANGED <<files, dom, dragging, nextId, submits, handed, lastSnapshot>>

\* dragstart on the row with data-id = id
DragStart(id) ==
  /\ id \in Range(dom)
  /\ dragging = NoId
  /\ ~MicrotaskPending
  /\ act' = Handler("dragstart", 0, id, <<>>)
  /\ dragging' = id
  /\ out' = <<>>
  /\ calls' = Retire(calls)
  /\ UNCHANGED <<files, dom, nextId, submits, handed, requests, lastSnapshot>>

\* fileList.insertBefore(draggingElement, nextSibling): the dragged row moves
\* to position p among the rows
MoveTo(rows, id, p) ==
  LET rest == SelectSeqBy(rows, { i \in DOMAIN rows : rows[i] # id }, 1)
  IN SubSeq(rest, 1, p - 1) \o <<id>> \o SubSeq(rest, p, Len(rest))

\* dragover while a row is dragged
DragOver(p) ==
  /\ dragging # NoId
  /\ p \in 1..Len(dom)
  /\ MoveTo(dom, dragging, p) # dom
  /\ ~MicrotaskPending
  /\ act' = Handler("dragover", 0, dragging, <<>>)
  /\ dom' = MoveTo(dom, dragging, p)
  /\ out' = <<>>
  /\ calls' = Retire(calls)
  /\ UNCHANGED <<files, dragging, nextId, submits, handed, requests, lastSnapshot>>

\* a call is between its start and its return
InFlight(c) == c.pc \in {"read", "parse", "select", "resolved"}

\* dragend on the dragged row: files takes the order of the rows
DragEnd ==
  LET fs == Reorder(files, dom)
  IN /\ dragging # NoId
     /\ ~MicrotaskPending
     /\ act' = Handler("dragend", 0, dragging, <<>>)
     /\ dragging' = NoId
     /\ files' = fs
     /\ lastSnapshot' = ReorderSnapshot(fs)
     /\ out' = <<SnapshotEvent>>
     /\ calls' = [b \in Batches |->
                    IF InFlight(calls[b]) THEN [calls[b] EXCEPT !.reordered = TRUE]
                    ELSE Retire(calls)[b]]
     /\ UNCHANGED <<dom, nextId, submits, handed, requests>>

\* handleFiles calls on any files, and the selection surface answering them
NextBatch ==
  \/ \E fl \in FileLists(FileKeys \ handed, MaxFiles - Cardinality(handed)) : Submit(fl)
  \/ \E b \in Batches : ReadDone(b)
  \/ \E b \in Batches : ParseDone(b)
  \/ \E b \in Batches :
       /\ calls[b].pc = "select"
       /\ \E pages \in PageLists(RequestOf(b).totalPages) : Confirm(b, pages)
  \/ \E b \in Batches : Cancel(b)
  \/ \E b \in Batches : Resume(b)

SpecBatch == Init /\ [][NextBatch]_vars

\* ------------------------------------- a surface that calls back twice
\* The callbacks of a request are plain closures: the surface can call them
\* again. Two calls made in one task both run before the continuation of
\* handleFiles, which is queued by the first resolve().

\* the selection surface calls onConfirm(pages) twice in one task
ConfirmTwice(b, pages) ==
  LET c == calls[b]
      req == RequestOf(b)
      item == FileItem(req.id, req.file, pages, req.totalPages)
      fs == Push(Push(files, item), item)
      evs == ConfirmEvents(Catalogue[req.file].name, Len(pages))
               \o ConfirmEvents(Catalogue[req.file].name, Len(pages))
  IN /\ c.pc = "select"
     /\ req \in requests
     /\ ~MicrotaskPending
     /\ act' = Handler("confirmTwice", b, req.id, pages)
     /\ files' = fs
     /\ out' = evs
     /\ dom' = Ids(fs)
     /\ dragging' = NoId
     /\ lastSnapshot' = Snapshot(fs)
     /\ requests' = requests \ {req}
     /\ calls' = [Retire(calls) EXCEPT ![b] =
                    [c EXCEPT !.pc = "resolved", !.added = TRUE,
                              !.snaps = @ + CountSnapshots(evs),
                              !.appended = @ \o <<Pushed(item), Pushed(item)>>]]
     /\ UNCHANGED <<nextId, submits, handed>>

\* the selection surface calls onCancel() and then onConfirm(pages) in one
\* task: the promise is resolved with false, the later resolve(true) is
\* ignored, the push is not
CancelThenConfirm(b, pages) ==
  LET c == calls[b]
      req == RequestOf(b)
      item == FileItem(req.id, req.file, pages, req.totalPages)
      fs == Push(files, item)
      evs == <<SkippedNotice(Catalogue[req.file].name)>>
               \o ConfirmEvents(Catalogue[req.file].name, Len(pages))
  IN /\ c.pc = "select"
     /\ req \in requests
     /\ ~MicrotaskPending
     /\ act' = Handler("cancelThenConfirm", b, req.id, pages)
     /\ files' = fs
     /\ out' = evs
     /\ dom' = Ids(fs)
     /\ dragging' = NoId
     /\ lastSnapshot' = Snapshot(fs)
     /\ requests' = requests \ {req}
     /\ calls' = [Retire(calls) EXCEPT ![b] =
                    [c EXCEPT !.pc = "resolved", !.added = FALSE,
                              !.cancelled = @ + 1,
                              !.snaps = @ + CountSnapshots(evs),
                              !.appended = Append(@, Pushed(item))]]
     /\ UNCHANGED <<nextId, submits, handed>>

NextSurface ==
  \/ NextBatch
  \/ \E b \in Batches :
       /\ calls[b].pc = "select"
       /\ \E pages \in PageLists(RequestOf(b).totalPages) : ConfirmTwice(b, pages)
  \/ \E b \in Batches :
       /\ calls[b].pc = "select"
       /\ \E pages \in PageLists(RequestOf(b).totalPages) : CancelThenConfirm(b, pages)

SpecSurface == Init /\ [][NextSurface]_vars

\* The same with the event loop's guarantees: a settled promise's
\* continuation runs (file.arrayBuffer(), PDFDocument.load, the promise of
\* showPageSelector once resolved). Nothing is assumed of the selection
\* surface: it may leave a request unanswered for ever.
FairBatch ==
  /\ SpecBatch
  /\ \A b \in Batches :
       WF_vars(ReadDone(b)) /\ WF_vars(ParseDone(b)) /\ WF_vars(Resume(b))

\* The same with a selection surface that answers: every request it is sent
\* is resolved, by a commit or by a cancel.
FairAnswered ==
  /\ FairBatch
  /\ \A b \in Batches :
       WF_vars(\/ /\ calls[b].pc = "select"
                  /\ \E pages \in PageLists(RequestOf(b).totalPages) : Confirm(b, pages)
               \/ Cancel(b))

\* handleFiles calls together with the handlers of the list
Next ==
  \/ \E fl \in FileLists(ListKeys \ handed, MaxFiles - Cardinality(handed)) : Submit(fl)
  \/ \E b \in Batches : ReadDone(b)
  \/ \E b \in Batches : ParseDone(b)
  \/ \E b \in Batches :
       /\ calls[b].pc = "select"
       /\ \E pages \in PageLists(RequestOf(b).totalPages) : Confirm(b, pages)
  \/ \E b \in Batches : Cancel(b)
  \/ \E b \in Batches : Resume(b)
  \/ \E id \in Range(dom) : Remove(id)
  \/ \E id \in Range(dom) : EditClick(id)
  \/ \E req \in requests : \E pages \in PageLists(req.totalPages) : EditConfirm(req, pages)
  \/ \E req \in requests : EditCancel(req)
  \/ \E id \in Range(dom) : DragStart(id)
  \/ \E p \in 1..Len(dom) : DragOver(p)
  \/ DragEnd

Spec == Init /\ [][Next]_vars

\* ------------------------------------------------------------ claims
IdSet(fs) == Range(Ids(fs))

\* the indices of the files of a call whose outcome is reached
Processed(c) ==
  IF c.pc = "done" THEN 1..Len(c.fileList)
  ELSE IF InFlight(c) THEN 1..(c.idx - 1)
  ELSE {}

\* the message of the failure of an application/pdf file, "" if it passes
ExpectedError(key) ==
  IF ~Catalogue[key].readOk THEN "Failed to read file" ELSE ValidationError(key)

FailsValidation(key) ==
  Catalogue[key].type = "application/pdf" /\ ExpectedError(key) # ""

CountAppended(c, status) ==
  Cardinality({ i \in DOMAIN c.appended : c.appended[i].status = status })

MultiPageAppended(c) ==
  Cardinality({ i \in DOMAIN c.appended : c.appended[i].totalPages > 1 })

AppendedIds(c) == { c.appended[i].id : i \in DOMAIN c.appended }

\* the success items of the worklist in worklist order, each as {name, bytes,
\* selectedPages}
Projection(fs) ==
  LET ok == SuccessOnly(fs)
  IN [i \in DOMAIN ok |-> [name |-> Catalogue[ok[i].file].name, buffer |-> ok[i].buffer,
                           hasSelectedPages |-> TRUE,
                           selectedPages |-> ok[i].selectedPages]]

PositionIn(seq, x) == CHOOSE i \in DOMAIN seq : seq[i] = x

\* C1: every application/pdf file of a submit whose validation failed (byte
\* read, parse, zero pages, first-page geometry) has an item with status error
\* and its error message in the worklist; only wrong-type files are not stored.
C1_FailedFileStoredAsError ==
  \A b \in Batches : \A k \in Processed(calls[b]) :
    LET key == calls[b].fileList[k]
    IN FailsValidation(key) =>
         \E i \in DOMAIN files :
           /\ files[i].file = key
           /\ files[i].status = "error"
           /\ files[i].errorMessage = ExpectedError(key)

C3_SelectedPagesValid ==
  \A i \in DOMAIN files :
    files[i].status = "success" =>
      LET sp == files[i].selectedPages
      IN /\ sp # <<>>
         /\ \A k, l \in DOMAIN sp : k # l => sp[k] # sp[l]
         /\ \A k \in DOMAIN sp : 0 <= sp[k] /\ sp[k] < files[i].totalPages

\* C4: a drag-end keeps the set of identities of the worklist, also while a
\* submit is suspended; an identity leaves the worklist only by the remove
\* action on that identity.
C4_ReorderKeepsIdentities ==
  [][ /\ act'.op = "dragend" => IdSet(files') = IdSet(files)
      /\ \A id \in IdSet(files) \ IdSet(files') :
           act'.op = "remove" /\ act'.id = id ]_vars

C6_LastSnapshotCurrent ==
  ~MicrotaskPending => lastSnapshot = Projection(files)

\* C7: every emitted snapshot is the list of the success items in worklist
\* order at the moment of emission, each with name, bytes and selectedPages.
C7_SnapshotIsProjection ==
  HasSnapshot(out) => lastSnapshot = Projection(files)

\* C8: cancelling a first-time selection leaves the worklist and the last
\* snapshot as they were and raises only the notice "Skipped <name>"; when
\* the batch moves on the file is counted neither as added nor as failed and
\* no error notification names it.
C8_CancelIsNeutral ==
  [][ /\ act'.op = "cancel" =>
           LET b == act'.b
               name == Catalogue[calls[b].fileList[calls[b].idx]].name
           IN /\ files' = files
              /\ dom' = dom
              /\ lastSnapshot' = lastSnapshot
              /\ out' = <<Notification("Skipped", name, 0)>>
              /\ calls'[b].successCount = calls[b].successCount
              /\ calls'[b].failedFiles = calls[b].failedFiles
      /\ (act'.op = "resume" /\ ~calls[act'.b].added) =>
           LET b == act'.b
               name == Catalogue[calls[b].fileList[calls[b].idx]].name
           IN /\ files' = files
              /\ calls'[b].successCount = calls[b].successCount
              /\ name \notin Range(calls'[b].failedFiles)
              /\ calls'[b].idx > calls[b].idx
              /\ \A i \in DOMAIN out' :
                   out'[i].kind = "error" => out'[i].name # name ]_vars

\* C8 witness: a selection was cancelled while the worklist held an item and
\* a snapshot had been emitted.
C8_Witness ==
  act.op = "cancel" /\ files # <<>> /\ lastSnapshot # <<>>

\* C9: the selectedPages of an item change only by a committed edit of that
\* item, to the committed list; a cancelled edit changes nothing in the
\* worklist and emits nothing.
C9_EditCommitOrKeep ==
  [][ /\ act'.op = "editCancel" =>
           files' = files /\ lastSnapshot' = lastSnapshot /\ out' = <<>>
      /\ \A i \in DOMAIN files : \A j \in DOMAIN files' :
           files[i].id = files'[j].id =>
             files'[j].selectedPages =
               IF act'.op = "editConfirm" /\ act'.id = files[i].id
               THEN act'.pages ELSE files[i].selectedPages ]_vars

\* C9 witness: an edit was cancelled on an item of the worklist that holds a
\* committed selection of its first and last page.
C9_Witness ==
  /\ act.op = "editCancel"
  /\ \E i \in DOMAIN files :
       files[i].id = act.id /\ files[i].selectedPages = <<0, files[i].totalPages - 1>>

\* C10: without a reorder since the submit started, the items a submit added
\* stand in the worklist in the order of their files in the submitted
\* sequence, after every item that was in the worklist when the submit started.
C10_AppendedInOrderAtEnd ==
  \A b \in Batches :
    LET c == calls[b]
    IN (c.pc # "returned" /\ ~c.reordered) =>
         \A i, j \in DOMAIN files :
           /\ ( /\ files[i].id \in AppendedIds(c)
                /\ files[j].id \in AppendedIds(c)
                /\ PositionIn(c.fileList, files[i].file)
                     < PositionIn(c.fileList, files[j].file) ) => i < j
           /\ (files[i].id \in c.preIds /\ files[j].id \in AppendedIds(c)) => i < j

\* C10 witness: a finished submit, not reordered, whose two items are both in
\* the worklist.
C10_Witness ==
  \E b \in Batches :
    /\ calls[b].pc = "done"
    /\ ~calls[b].reordered
    /\ Cardinality(AppendedIds(calls[b]) \cap IdSet(files)) = 2

\* C11: at most one selection request, first-time or edit-pages, is
\* outstanding at any moment.
C11_OneRequestOutstanding ==
  Cardinality(requests) <= 1

\* a call holds an id it drew for a file that it has not stored yet
Attempting(c) == c.pc \in {"read", "parse", "select"}

\* C12: no two items of the worklist share an identity; the id of an attempt
\* in progress belongs to no item and to no other attempt; an id enters the
\* worklist only as the id of the attempt that stores it, which then lets go
\* of it; and every id a call takes is a new draw, so no id is given twice.
C12_IdentitiesNeverShared ==
  /\ [](\A i, j \in DOMAIN files : i # j => files[i].id # files[j].id)
  /\ [](\A i \in DOMAIN files : files[i].id < nextId)
  /\ [](\A b \in Batches :
          Attempting(calls[b]) =>
            /\ calls[b].id \notin IdSet(files)
            /\ calls[b].id < nextId
            /\ \A b2 \in Batches \ {b} :
                 Attempting(calls[b2]) => calls[b2].id # calls[b].id)
  /\ [][ /\ \A id \in IdSet(files') \ IdSet(files) :
              \E b \in Batches :
                /\ Attempting(calls[b]) /\ calls[b].id = id
                /\ ~(Attempting(calls'[b]) /\ calls'[b].id = id)
         /\ \A b \in Batches :
              (Attempting(calls'[b]) /\ calls'[b].id # calls[b].id) =>
                (calls'[b].id = nextId /\ nextId' = nextId + 1) ]_vars

\* C12 witness: a selection is committed, so an item is stored, in a session
\* in which a.pdf was stored by an earlier call and has left the worklist.
C12_Witness ==
  /\ act.op = "confirm"
  /\ "apdf" \in handed
  /\ \A i \in DOMAIN files : files[i].file # "apdf"
  /\ \A b \in Batches :
       /\ b # act.b => ~InFlight(calls[b])
       /\ b = act.b => "apdf" \notin Range(calls[b].fileList)

\* the file a call is working on is a document that passes every validation
\* and has exactly one page
AtValidSinglePage(c) ==
  LET key == c.fileList[c.idx]
  IN /\ Catalogue[key].readOk
     /\ ValidationError(key) = ""
     /\ Catalogue[key].pages = 1

HasSelectionRequest(evs) == \E i \in DOMAIN evs : evs[i].type = "showPageSelector"

\* C13: when the parse of a valid one-page document settles, the worklist
\* grows at its end by one item for that file with the attempt's id, status
\* success, totalPages 1 and selectedPages [0], and no selection request is
\* issued; every item with totalPages 1 in the worklist has selectedPages [0].
C13_SinglePageAutoSelected ==
  /\ [][ \A b \in Batches :
           (act'.op = "parse" /\ act'.b = b /\ AtValidSinglePage(calls[b])) =>
             /\ Len(files') = Len(files) + 1
             /\ SubSeq(files', 1, Len(files)) = files
             /\ LET item == files'[Len(files')]
                IN /\ item.id = calls[b].id
                   /\ item.file = calls[b].fileList[calls[b].idx]
                   /\ item.status = "success"
                   /\ item.totalPages = 1
                   /\ item.selectedPages = <<0>>
             /\ requests' = requests
             /\ ~HasSelectionRequest(out') ]_vars
  /\ [](\A i \in DOMAIN files :
          Catalogue[files[i].file].pages = 1 =>
            /\ files[i].status = "success"
            /\ files[i].totalPages = 1
            /\ files[i].selectedPages = <<0>>)

\* C13 witness: the parse of a.pdf settled and its item is the last of a
\* worklist that already held another item.
C13_Witness ==
  /\ act.op = "parse"
  /\ Len(files) >= 2
  /\ files[Len(files)].id = act.id
  /\ files[Len(files)].file = "apdf"

\* C14: every processed document with page count 0 has an item with status
\* error and message "PDF has no pages" in the worklist and no item with
\* status success, and no selection request is outstanding for it.
C14_ZeroPagesStoredAsError ==
  \A b \in Batches : \A k \in Processed(calls[b]) :
    LET key == calls[b].fileList[k]
    IN (Catalogue[key].readOk /\ Catalogue[key].parseOk /\ Catalogue[key].pages = 0) =>
         /\ \E i \in DOMAIN files :
              /\ files[i].file = key
              /\ files[i].status = "error"
              /\ files[i].errorMessage = "PDF has no pages"
         /\ \A i \in DOMAIN files : files[i].file = key => files[i].status # "success"
         /\ \A r \in requests : r.file # key

\* fs without its k-th item
WithoutIndex(fs, k) == SubSeq(fs, 1, k - 1) \o SubSeq(fs, k + 1, Len(fs))

IsAggregate(e) ==
  \/ e.type = "showModal"
  \/ e.type = "notification" /\ e.kind = "success" /\ e.name = ""

Aggregates(evs) == SelectSeqBy(evs, { i \in DOMAIN evs : IsAggregate(evs[i]) }, 1)

\* the files of a finished call that were not stored and not cancelled
FailureCount(c) == Len(c.fileList) - CountAppended(c, "success") - c.cancelled

C17_OneAggregateOutcome ==
  \A b \in Batches :
    (calls[b].pc = "done" /\ calls[b].fileList # <<>>) => Len(Aggregates(out)) = 1

IsErrorNotification(e) == e.type = "notification" /\ e.kind = "error"

ErrorNotifications(evs) ==
  SelectSeqBy(evs, { i \in DOMAIN evs : IsErrorNotification(evs[i]) }, 1)

\* C18: a step raises one error notification for each file it records as
\* failed, in the order of the files and naming them, before any aggregate
\* outcome of the same step, and no step raises another error notification;
\* so a file's notification is raised in the step that detects its failure,
\* before the call goes on to the next file, and a finished call has recorded
\* (and notified) as many failures as it had files that failed.
C18_ErrorNotifiedWhenDetected ==
  /\ [][ LET errs == ErrorNotifications(out')
             b == act'.b
         IN /\ b \notin Batches => errs = <<>>
            /\ b \in Batches =>
                 LET old == Len(calls[b].failedFiles)
                     new == calls'[b].failedFiles
                 IN /\ Len(new) = old + Len(errs)
                    /\ SubSeq(new, 1, old) = calls[b].failedFiles
                    /\ \A i \in DOMAIN errs : errs[i].name = new[old + i]
            /\ \A i, j \in DOMAIN out' :
                 (IsErrorNotification(out'[i]) /\ IsAggregate(out'[j])) => i < j ]_vars
  /\ [](\A b \in Batches :
          calls[b].pc = "done" => Len(calls[b].failedFiles) = FailureCount(calls[b]))

\* C18 witness: a step raised two error notifications and left its call
\* suspended at the byte read of a later file.
C18_Witness ==
  \E b \in Batches :
    /\ act.b = b
    /\ calls[b].pc = "read"
    /\ Len(ErrorNotifications(out)) = 2

\* the indices of the files of a call whose outcome is decided
Settled(c) ==
  IF c.pc = "done" THEN 1..Len(c.fileList)
  ELSE IF c.pc = "resolved" THEN 1..c.idx
  ELSE IF InFlight(c) THEN 1..(c.idx - 1)
  ELSE {}

IsWrongType(key) == Catalogue[key].type # "application/pdf"

\* the names of the decided files of a call that are of the wrong type or
\* fail the read or the validation, in the order of the files
FailedNames(c) ==
  LET bad == SelectSeqBy(c.fileList,
                         { k \in Settled(c) : \/ IsWrongType(c.fileList[k])
                                              \/ FailsValidation(c.fileList[k]) }, 1)
  IN [i \in DOMAIN bad |-> Catalogue[bad[i]].name]

ValidWithPages(c, multi) ==
  Cardinality({ k \in Settled(c) :
                  /\ ~IsWrongType(c.fileList[k])
                  /\ ~FailsValidation(c.fileList[k])
                  /\ (Catalogue[c.fileList[k]].pages > 1) = multi })

UniqueInRange(pages, totalPages) ==
  /\ \A k, l \in DOMAIN pages : k # l => pages[k] # pages[l]
  /\ \A k \in DOMAIN pages : 0 <= pages[k] /\ pages[k] < totalPages

\* C20: an edit-pages commit whose target is not a success item, or whose
\* pages are not unique indices within [0, totalPages), leaves the worklist
\* as it was and is reported as an error.
C20_InvalidEditRejected ==
  [][ act'.op = "editConfirm" =>
        \A i \in DOMAIN files :
          ( /\ files[i].id = act'.id
            /\ \/ files[i].status # "success"
               \/ ~UniqueInRange(act'.pages, files[i].totalPages) ) =>
            /\ files' = files
            /\ ErrorNotifications(out') # <<>> ]_vars

\* the files of in-flight calls that their loops have not come to yet
NotReached ==
  UNION { { calls[b].fileList[k] : k \in (calls[b].idx + 1)..Len(calls[b].fileList) } :
          b \in { x \in Batches : InFlight(calls[x]) } }

\* the files a step of call b decided
NewlySettled(b) == Settled(calls'[b]) \ Settled(calls[b])

\* C21: a file whose type is not application/pdf is decided in the step in
\* which the loop comes to it, by the error notification "<name> is not a PDF
\* file" and an entry in the call's failed files; no call is ever at a byte
\* read, a parse or a selection of such a file, no id is drawn for it (the ids
\* drawn are as many as the application/pdf files the loops have come to), and
\* no item and no request exists for it.
C21_WrongTypeFailsAtOnce ==
  /\ [][ \A b \in Batches :
           act'.b = b =>
             \A k \in NewlySettled(b) :
               LET key == calls'[b].fileList[k]
               IN IsWrongType(key) =>
                    /\ act'.op \in {"submit", "read", "parse", "resume"}
                    /\ \E i \in DOMAIN out' :
                         out'[i] = [type |-> "notification", kind |-> "error",
                                    text |-> "is not a PDF file",
                                    name |-> Catalogue[key].name, cause |-> "",
                                    n |-> 0, m |-> 0, names |-> <<>>, actions |-> <<>>]
                    /\ Catalogue[key].name \in Range(calls'[b].failedFiles)
                    /\ Catalogue[key].name \notin Range(calls[b].failedFiles) ]_vars
  /\ [](/\ \A b \in Batches :
             InFlight(calls[b]) => ~IsWrongType(calls[b].fileList[calls[b].idx])
        /\ nextId - 1 = Cardinality({ key \in handed \ NotReached : ~IsWrongType(key) })
        /\ \A key \in handed :
             IsWrongType(key) =>
               /\ \A i \in DOMAIN files : files[i].file # key
               /\ \A r \in requests : r.file # key)

\* C21 witness: a call whose first file was of the wrong type is at the byte
\* read of its second file, with the first id of the session.
C21_Witness ==
  \E b \in Batches :
    /\ calls[b].pc = "read"
    /\ calls[b].idx = 2
    /\ IsWrongType(calls[b].fileList[1])
    /\ calls[b].id = 1
    /\ nextId = 2

\* C22: whenever control is at the host loop and no row is being dragged, the
\* rows of the rendered list carry the ids of the worklist, in its order.
C22_RenderedListIsWorklist ==
  (dragging = NoId /\ ~MicrotaskPending) => dom = Ids(files)

ItemsOfAttempt(b) == { i \in DOMAIN files : files[i].id = calls[b].id }

\* C24: when a first-time selection request has been resolved, the worklist
\* holds at most one item for it, and none if it was resolved as cancelled,
\* whatever calls the selection surface made to the request's callbacks.
C24_SingleResolution ==
  \A b \in Batches :
    calls[b].pc = "resolved" =>
      /\ Cardinality(ItemsOfAttempt(b)) <= 1
      /\ ~calls[b].added => ItemsOfAttempt(b) = {}

\* What a subscriber that kept entry e of an emitted snapshot reads in it
\* when the worklist is fs: an entry built as an object of its own reads as it
\* was built; an entry that is an item object reads as that item is now.
ReadEntry(e, fs) ==
  IF "ref" \in DOMAIN e
  THEN IF FindIndex(fs, e.ref) # 0
       THEN [name |-> Catalogue[fs[FindIndex(fs, e.ref)].file].name,
             buffer |-> fs[FindIndex(fs, e.ref)].buffer,
             hasSelectedPages |-> TRUE,
             selectedPages |-> fs[FindIndex(fs, e.ref)].selectedPages]
       ELSE e
  ELSE e

ReadSnapshot(s, fs) == [i \in DOMAIN s |-> ReadEntry(s[i], fs)]

CheckOrder == <<"type", "read", "parse", "pages", "geometry">>

CheckFails(check, key) ==
  CASE check = "type" -> Catalogue[key].type # "application/pdf"
    [] check = "read" -> ~Catalogue[key].readOk
    [] check = "parse" -> ~Catalogue[key].parseOk
    [] check = "pages" -> Catalogue[key].pages = 0
    [] check = "geometry" -> ~(Catalogue[key].width > 0 /\ Catalogue[key].height > 0)

\* the position in CheckOrder of the first check the file fails, 0 if none
FirstFailure(key) ==
  IF \E i \in DOMAIN CheckOrder : CheckFails(CheckOrder[i], key)
  THEN CHOOSE i \in DOMAIN CheckOrder :
         /\ CheckFails(CheckOrder[i], key)
         /\ \A j \in 1..(i - 1) : ~CheckFails(CheckOrder[j], key)
  ELSE 0

\* the error notification that reports the failure of a check
FailureReport(check, name) ==
  CASE check = "type" -> ErrorNotification("is not a PDF file", name, "")
    [] check = "read" -> ErrorNotification("Failed to read", name, "Failed to read file")
    [] check = "parse" ->
         ErrorNotification("Failed to load", name, "Invalid or corrupted PDF file")
    [] check = "pages" -> ErrorNotification("Failed to load", name, "PDF has no pages")
    [] check = "geometry" ->
         ErrorNotification("Failed to load", name, "Invalid page dimensions")

\* C26: the step that decides a file reports, for a file that fails a check,
\* the failure of the first check it fails in the order type, byte read,
\* parse, page count, geometry, and no other failure of that file, and reports
\* no failure for a file that passes all five; only files that pass all five
\* are classified, that is, have an item or a selection request.
C26_FirstFailingCheckDecides ==
  /\ [][ \A b \in Batches :
           act'.b = b =>
             \A k \in NewlySettled(b) :
               LET key == calls'[b].fileList[k]
                   name == Catalogue[key].name
                   about == { i \in DOMAIN out' :
                                IsErrorNotification(out'[i]) /\ out'[i].name = name }
               IN IF FirstFailure(key) = 0
                  THEN about = {}
                  ELSE /\ Cardinality(about) = 1
                       /\ \A i \in about :
                            out'[i] = FailureReport(CheckOrder[FirstFailure(key)], name) ]_vars
  /\ [](/\ \A i \in DOMAIN files : FirstFailure(files[i].file) = 0
        /\ \A r \in requests : FirstFailure(r.file) = 0)

\* C26 witness: d.pdf, which fails the byte read and would fail the parse, the
\* page count and the geometry check as well, has just been reported as a
\* read failure.
C26_Witness ==
  /\ act.op = "read"
  /\ \E i \in DOMAIN out :
       out[i] = ErrorNotification("Failed to read", "d.pdf", "Failed to read file")

\* C27: an edit-pages commit leaves the worklist with the same length, every
\* item at its position with its id, file, bytes, status and totalPages, every
\* item other than the target exactly as it was, the target with the
\* committed pages, and emits exactly one snapshot.
C27_EditChangesOnlyPages ==
  [][ act'.op = "editConfirm" =>
        /\ Len(files') = Len(files)
        /\ \A i \in DOMAIN files :
             /\ files'[i].id = files[i].id
             /\ files'[i].file = files[i].file
             /\ files'[i].buffer = files[i].buffer
             /\ files'[i].status = files[i].status
             /\ files'[i].totalPages = files[i].totalPages
             /\ files'[i].errorMessage = files[i].errorMessage
             /\ files[i].id # act'.id => files'[i] = files[i]
             /\ files[i].id = act'.id => files'[i].selectedPages = act'.pages
        /\ CountSnapshots(out') = 1 ]_vars

\* C27 witness: an edit-pages commit has just run on the first of two items.
C27_Witness ==
  /\ act.op = "editConfirm"
  /\ Len(files) = 2
  /\ files[1].id = act.id
  /\ files[1].selectedPages = act.pages

\* an identity no item has: one past the next draw
UnknownId == nextId + 1

\* identity lists: every list without repeats of at most three entries out of
\* the ids drawn so far and an unknown one
IdLists ==
  { L \in UNION { [1..n -> (1..(nextId - 1)) \cup {UnknownId}] : n \in 0..3 } :
      \A i, j \in DOMAIN L : i # j => L[i] # L[j] }

\* L restricted to the identities of fs, in the order of L
Restricted(L, fs) == SelectSeqBy(L, { i \in DOMAIN L : L[i] \in IdSet(fs) }, 1)

\* after is fs put in the order of L restricted to the identities of fs, each
\* item with all its fields
IsReorderTo(after, fs, L) ==
  /\ Ids(after) = Restricted(L, fs)
  /\ \A j \in DOMAIN after : \E i \in DOMAIN fs : after[j] = fs[i]

\* C28: the drag-end handler sets the worklist to the items whose ids the
\* rows of the list carry, in the order of the rows, every item with its
\* fields unchanged; and so does the reorder applied to any reachable worklist
\* and any identity list, ids unknown to the worklist being ignored.
C28_ReorderFollowsIdentityList ==
  /\ [][ act'.op = "dragend" => IsReorderTo(files', files, dom) ]_vars
  /\ [](\A L \in IdLists : IsReorderTo(Reorder(files, L), files, L))

\* C28 witness: a drag-end has just put the later drawn of two items first.
C28_Witness ==
  /\ act.op = "dragend"
  /\ Len(files) = 2
  /\ files[1].id > files[2].id

\* the first-time selection requests of call b that are outstanding
RequestsOfCall(b) == { r \in requests : r.kind = "first" /\ r.b = b }

\* C29: a call has at most one selection request of its own outstanding, and
\* while it has one it is suspended at it; a call works on one file at a time
\* and moves from file k to a later file only in a step of its own that
\* brings file k to its outcome: a failed read, a failed validation, the
\* append of a one-page document, or the continuation after a resolved
\* selection.
C29_OneFileAtATime ==
  /\ [](\A b \in Batches :
          /\ Cardinality(RequestsOfCall(b)) <= 1
          /\ RequestsOfCall(b) # {} =>
               (calls[b].pc = "select" /\ RequestsOfCall(b) = {RequestOf(b)}))
  /\ [][ \A b \in Batches :
           (InFlight(calls[b]) /\ calls'[b].idx # calls[b].idx /\ calls'[b].pc # "returned") =>
             LET c == calls[b]
                 key == c.fileList[c.idx]
             IN /\ act'.b = b
                /\ calls'[b].idx > c.idx
                /\ \/ c.pc = "read" /\ ~Catalogue[key].readOk
                   \/ c.pc = "parse" /\ (ValidationError(key) # "" \/ Catalogue[key].pages = 1)
                   \/ c.pc = "resolved"
                /\ RequestsOfCall(b) = {} ]_vars

\* C29 witness: a call is suspended at the selection of its second file after
\* the selection of its first file was committed.
C29_Witness ==
  \E b \in Batches :
    /\ calls[b].pc = "select"
    /\ calls[b].idx = 2
    /\ MultiPageAppended(calls[b]) = 1

\* C30: an edit-pages click on an item issues one request that carries the
\* item's selectedPages of that moment as its initial selection, in the
\* request and in the event dispatched, and changes nothing else; a
\* first-time request carries no initial selection; for an identity that is
\* not in the worklist the edit-pages branch issues no request.
C30_EditRequestCarriesSelection ==
  /\ [][ act'.op = "editClick" =>
           \E i \in DOMAIN files :
             /\ files[i].id = act'.id
             /\ requests' = requests \cup EditClickRequests(files, act'.id)
             /\ \E r \in requests' :
                  /\ r.kind = "edit" /\ r.id = act'.id
                  /\ r.hasInitial /\ r.initial = files[i].selectedPages
             /\ out' = <<SelectionRequestEvent(Catalogue[files[i].file].name,
                                                files[i].selectedPages)>>
             /\ files' = files /\ lastSnapshot' = lastSnapshot /\ dom' = dom ]_vars
  /\ [](/\ \A r \in requests : r.kind = "first" => (~r.hasInitial /\ r.initial = <<>>)
        /\ \A r \in requests : r.kind = "edit" => r.hasInitial
        /\ \A id \in (0..nextId) \ IdSet(files) : EditClickRequests(files, id) = {})

\* C30 witness: an edit-pages click has just issued a request whose initial
\* selection is a list of two pages.
C30_Witness ==
  /\ act.op = "editClick"
  /\ \E r \in EditRequests : r.id = act.id /\ Len(r.initial) = 2

\* C31: in the step a submit finishes in, every aggregate outcome (summary
\* notification or retry modal) is raised after the final fileListUpdated
\* event of the batch, never before it.
C31_AggregateAfterFinalSnapshot ==
  \A b \in Batches :
    calls[b].pc = "done" =>
      \A i, j \in DOMAIN out :
        (IsAggregate(out[i]) /\ IsSnapshot(out[j])) => j < i

\* C32: a submit that finishes with at least one failed file (wrong type,
\* read or validation failure) raises one dialog whose failedNames are the
\* names of exactly those files, once each and in the order they were
\* submitted, none of them the name of a file the submit stored or whose
\* selection was cancelled, and whose actions are exactly two: one that
\* opens the file picker again and one that only dismisses.
C32_DialogNamesTheFailedFiles ==
  \A b \in Batches :
    LET c == calls[b]
        modals == SelectSeqBy(out, { i \in DOMAIN out : out[i].type = "showModal" }, 1)
    IN (c.pc = "done" /\ FailedNames(c) # <<>>) =>
         /\ Len(modals) = 1
         /\ modals[1].names = FailedNames(c)
         /\ \A i, j \in DOMAIN modals[1].names :
              i # j => modals[1].names[i] # modals[1].names[j]
         /\ \A k \in DOMAIN c.fileList :
              (~IsWrongType(c.fileList[k]) /\ ~FailsValidation(c.fileList[k])) =>
                Catalogue[c.fileList[k]].name \notin Range(modals[1].names)
         /\ Len(modals[1].actions) = 2
         /\ modals[1].actions[1].onClick = "fileInput.click"
         /\ modals[1].actions[2].onClick = ""

\* C32 witness: a submit finished with a wrong-type file and a corrupted
\* document failed and a selection cancelled.
C32_Witness ==
  \E b \in Batches :
    /\ calls[b].pc = "done"
    /\ Len(calls[b].failedFiles) = 2
    /\ calls[b].cancelled = 1
    /\ \E k \in DOMAIN calls[b].fileList : IsWrongType(calls[b].fileList[k])
    /\ \E k \in DOMAIN calls[b].fileList : FailsValidation(calls[b].fileList[k])
    /\ \E i \in DOMAIN out : out[i].type = "showModal"

\* the files a call counted: added, failed or cancelled
Classified(c) == c.successCount + Len(c.failedFiles) + c.cancelled

\* the file whose selection was committed and whose successCount++ is still
\* to run, in the continuation queued by resolve(true)
AboutToCount(c) == IF c.pc = "resolved" /\ c.added THEN 1 ELSE 0

\* C33: every file of a submit is counted once, as added (successCount), as
\* failed (a name in failedFiles) or as cancelled: in every state of the call
\* the three counts add up to the number of files whose outcome is decided (a
\* committed selection is counted when the call resumes), so to the number of
\* files submitted when the call finishes; no count ever goes down; every
\* wrong-type file is among the failed.
C33_EachFileOneOutcome ==
  /\ [](\A b \in Batches :
          LET c == calls[b]
          IN /\ (InFlight(c) \/ c.pc = "done") =>
                  Classified(c) + AboutToCount(c) = Cardinality(Settled(c))
             /\ c.pc = "done" =>
                  /\ Classified(c) = Len(c.fileList)
                  /\ \A k \in DOMAIN c.fileList :
                       IsWrongType(c.fileList[k]) =>
                         Catalogue[c.fileList[k]].name \in Range(c.failedFiles))
  /\ [][ \A b \in Batches :
           (InFlight(calls[b]) /\ calls'[b].pc # "returned") =>
             /\ calls'[b].successCount >= calls[b].successCount
             /\ Len(calls'[b].failedFiles) >= Len(calls[b].failedFiles)
             /\ calls'[b].cancelled >= calls[b].cancelled ]_vars

\* C33 witness: a submit of three files finished with one counted as added,
\* one wrong-type file counted as failed and one selection cancelled.
C33_Witness ==
  \E b \in Batches :
    /\ calls[b].pc = "done"
    /\ calls[b].successCount = 1
    /\ Len(calls[b].failedFiles) = 1
    /\ calls[b].cancelled = 1
    /\ \E k \in DOMAIN calls[b].fileList : IsWrongType(calls[b].fileList[k])

\* C34: every item of the worklist, and every item a submit pushed, has status
\* success and totalPages >= 1, and its selectedPages is a list: [0] or a list
\* the selection surface committed for a document of that many pages. No
\* handler stores an item with status pending or error.
C34_OnlySuccessItemsStored ==
  /\ \A i \in DOMAIN files :
       /\ files[i].status = "success"
       /\ files[i].errorMessage = ""
       /\ files[i].totalPages >= 1
       /\ files[i].selectedPages \in {<<0>>} \cup PageLists(files[i].totalPages)
  /\ \A b \in Batches : \A i \in DOMAIN calls[b].appended :
       calls[b].appended[i].status = "success" /\ calls[b].appended[i].totalPages >= 1

\* C34 witness: the worklist holds an item and a submit, during which the
\* list was reordered, has finished with a document that failed validation.
C34_Witness ==
  /\ files # <<>>
  /\ \E b \in Batches :
       /\ calls[b].pc = "done"
       /\ \E k \in DOMAIN calls[b].fileList : FailsValidation(calls[b].fileList[k])
       /\ calls[b].reordered

\* C35: the commit of an edit-pages request whose item was removed from the
\* worklist while the request was outstanding leaves the worklist as it was:
\* the item is not put back, and the identities, the order and every field of
\* the items that are there stay the same.
C35_CommitAfterRemoveChangesNothing ==
  [][ (act'.op = "editConfirm" /\ act'.id \notin IdSet(files)) =>
        /\ files' = files
        /\ act'.id \notin IdSet(files')
        /\ lastSnapshot' = Snapshot(files) ]_vars

\* C35 witness: an edit-pages request was committed for an item that is no
\* longer in the worklist, which holds another item.
C35_Witness ==
  /\ act.op = "editConfirm"
  /\ act.id \notin IdSet(files)
  /\ files # <<>>

\* the items of the worklist made from file `key`
ItemsOfFile(fs, key) == { i \in DOMAIN fs : fs[i].file = key }

\* every handleFiles call made so far has returned
AllComplete ==
  /\ submits > 0
  /\ \A b \in Batches : calls[b].pc \in {"idle", "done", "returned"}

\* C36: with handleFiles calls that overlap and no remove or reorder, no item
\* is lost or duplicated. No step takes an item out of the worklist or moves
\* it; each step of a call adds as many items as the call counts as added in
\* that step (a committed selection is counted when the call resumes); no
\* two items share an identity or a file; the items of a call are all there,
\* in the order of its files. So once all calls have returned the worklist
\* holds one item for each valid one-page file handed in, at most one for each
\* valid multi-page file (one if its selection was committed) and none for a
\* file that failed.
C36_OverlappingSubmitsKeepItems ==
  /\ [][ /\ \A i \in DOMAIN files : i \in DOMAIN files' /\ files'[i] = files[i]
         /\ \A b \in Batches :
              act'.b = b =>
                Len(files') - Len(files) =
                  (calls'[b].successCount + AboutToCount(calls'[b]))
                    - (calls[b].successCount + AboutToCount(calls[b])) ]_vars
  /\ [](/\ \A i, j \in DOMAIN files :
             i # j => (files[i].id # files[j].id /\ files[i].file # files[j].file)
        /\ \A b \in Batches :
             LET c == calls[b]
             IN (InFlight(c) \/ c.pc = "done") =>
                  /\ Len(c.appended) = c.successCount + AboutToCount(c)
                  /\ AppendedIds(c) \subseteq IdSet(files)
                  /\ \A i, j \in DOMAIN files :
                       ( /\ files[i].id \in AppendedIds(c)
                         /\ files[j].id \in AppendedIds(c)
                         /\ i < j )
                       => PositionIn(c.fileList, files[i].file)
                            < PositionIn(c.fileList, files[j].file)
        /\ AllComplete =>
             \A key \in handed :
               LET n == Cardinality(ItemsOfFile(files, key))
               IN /\ (IsWrongType(key) \/ FailsValidation(key)) => n = 0
                  /\ (~IsWrongType(key) /\ ~FailsValidation(key)
                        /\ Catalogue[key].pages = 1) => n = 1
                  /\ n <= 1)

\* C36 witness: the first call has just finished, after the second, and the
\* item the second call added stands between the two items of the first: the
\* second call ran from its start to its return while the first was suspended.
C36_Witness ==
  /\ calls[1].pc = "done"
  /\ calls[2].pc = "returned"
  /\ Len(files) = 3
  /\ AppendedIds(calls[1]) = {files[1].id, files[3].id}
  /\ files[2].id \notin AppendedIds(calls[1])

====
